---- MODULE Spec2Model ----
(***************************************************************************)
(* Model of bwscanner/fetcher.py: the onion-routed client endpoint         *)
(* (proxy-port resolution, proxy TCP connect, SOCKS5 negotiation, circuit  *)
(* binding), the agent's scheme dispatch, and the hashing body reader.     *)
(*                                                                         *)
(* Twisted Deferreds are modelled by their contract: a Deferred fires at   *)
(* most once, callback()/errback() on a fired Deferred raises              *)
(* AlreadyCalledError and leaves the result alone, addCallback-only links  *)
(* are skipped by a failure, and cancel() on an unfired Deferred runs the  *)
(* canceller and then, if still unfired, errbacks CancelledError.          *)
(* The controller, the proxy, the transport and the HTTP response are the  *)
(* environment: their events are the nondeterministic actions.             *)
(***************************************************************************)
EXTENDS Integers, Sequences, FiniteSets, TLC

(***************************************************************************)
(* Bounds of the model.                                                    *)
(***************************************************************************)
\* longest response body, in bytes, the reader is fed
MaxBody == 3
\* how many termination signals a transport may deliver to one reader
MaxClose == 2
\* how many times the caller may call cancel() on one digest future
MaxCancel == 2
\* longest chunk, in bytes, one dataReceived call carries
MaxChunk == 2

\* the requests in flight
Req == {1, 2}

None == "None"

(***************************************************************************)
(* Strings are sequences of one-character strings so that str.isdigit and  *)
(* int() can be computed character by character.                           *)
(***************************************************************************)
Digits == <<"0", "1", "2", "3", "4", "5", "6", "7", "8", "9">>

DigitVal(c) == (CHOOSE i \in 1..10 : Digits[i] = c) - 1

IsDigitChar(c) == \E i \in 1..10 : Digits[i] = c

\* str.isdigit(): non-empty and every character a decimal digit
isdigit(s) == Len(s) > 0 /\ \A i \in 1..Len(s) : IsDigitChar(s[i])

RECURSIVE int(_)
\* int(s) for a string of decimal digits
int(s) == IF Len(s) = 0 THEN 0
          ELSE 10 * int(SubSeq(s, 1, Len(s) - 1)) + DigitVal(s[Len(s)])

S_DEFAULT == <<"D", "E", "F", "A", "U", "L", "T">>
S_9050 == <<"9", "0", "5", "0">>
S_9051 == <<"9", "0", "5", "1">>
S_0 == <<"0">>
S_70000 == <<"7", "0", "0", "0", "0">>
S_unix == <<"u", "n", "i", "x", ":", "/", "x">>

\* what the controller may answer for SocksPort: a scalar string or a list
\* of strings
Scalar(s) == [isList |-> FALSE, val |-> s]
List(l) == [isList |-> TRUE, val |-> l]

SocksPortSettings ==
    { Scalar(S_DEFAULT), Scalar(S_9051), Scalar(S_0), Scalar(S_70000),
      Scalar(S_unix),
      List(<<S_9050, S_unix>>), List(<<S_unix, S_9051>>), List(<<S_unix>>),
      List(<<S_unix, S_9051, S_9050>>), List(<<S_DEFAULT>>), List(<<>>) }

\* the answer slot of an endpoint whose query has not been answered
NoSetting == Scalar(<<>>)

FirstDigitIndex_last(l) ==
    IF \E i \in 1..Len(l) : isdigit(l[i])
    THEN CHOOSE i \in 1..Len(l) :
            isdigit(l[i]) /\ \A j \in (i + 1)..Len(l) : ~isdigit(l[j])
    ELSE 0

\* the first index of l whose entry is a digit string, 0 when there is none
FirstDigitIndex(l) ==
    IF \E i \in 1..Len(l) : isdigit(l[i])
    THEN CHOOSE i \in 1..Len(l) :
            isdigit(l[i]) /\ \A j \in 1..(i - 1) : ~isdigit(l[j])
    ELSE 0

\* extract_port_value: the port, or the exception the callback raises
extract_port_value(result) ==
    IF result.isList
    THEN IF FirstDigitIndex(result.val) = 0
         THEN [ok |-> FALSE, err |-> "StopIteration", port |-> 0]
         ELSE [ok |-> TRUE, err |-> None,
               port |-> int(result.val[FirstDigitIndex(result.val)])]
    ELSE IF result.val = S_DEFAULT
         THEN [ok |-> TRUE, err |-> None, port |-> 9050]
         ELSE IF isdigit(result.val)
              THEN [ok |-> TRUE, err |-> None, port |-> int(result.val)]
              ELSE [ok |-> FALSE, err |-> "ValueError", port |-> 0]

(***************************************************************************)
(* Inputs of a request.                                                    *)
(***************************************************************************)
Schemes == {"http", "https", "ftp"}
Hosts == {"a.example", "b.example"}
Ports == {80, 443}
\* relay paths: ordered sequences of relay identities
Paths == {<<"R1", "R2">>, <<"R2", "R1">>}
\* the local (host, port) the kernel may give the TCP connection to the proxy
LocalAddrs == {<<"127.0.0.1", 50001>>, <<"127.0.0.1", 50002>>}
NoAddr == <<None, 0>>

\* _getEndpoint is called with a parsed URI alone (host and port default to
\* None) or with the scheme string and host, port as arguments
ParsedURIs == [tag : {"URI"}, scheme : Schemes, host : Hosts, port : Ports]
SchemeOnly == [tag : {"str"}, scheme : Schemes]
NoPort == 0
GetEndpointCalls ==
    [uri : ParsedURIs, host : {None}, port : {NoPort}]
    \cup [uri : SchemeOnly, host : Hosts, port : Ports]

VARIABLES
    agent,      \* per request: what _getEndpoint returned or raised
    conn,       \* per request: the OnionRoutedTCPClientEndpoint and its fetch
    reader      \* the hashingReadBody call: protocol, Deferred, transport

vars == <<agent, conn, reader>>

(***************************************************************************)
(* OnionRoutedAgent._getEndpoint and OnionRoutedTCPClientEndpoint          *)
(***************************************************************************)
AgentIdle ==
    [outcome |-> "idle",        \* what _getEndpoint returned or raised
     call |-> None,             \* the arguments _getEndpoint was called with
     hasWrap |-> FALSE,         \* hasattr(self, '_wrapContextFactory')
     hasPolicy |-> FALSE,       \* hasattr(self, '_policyForHTTPS')
     host |-> None,             \* the endpoint's host
     port |-> NoPort,           \* the endpoint's port
     path |-> <<>>,             \* the endpoint's path
     tlsPolicy |-> None]        \* the policy the TLS wrapper was given

\* a Deferred that has not fired
Unfired == [called |-> FALSE, result |-> None]
Fired(v) == [called |-> TRUE, result |-> v]

ConnIdle ==
    [conf |-> "unasked",        \* the get_conf("SocksPort") query
     socksPort |-> NoSetting,   \* result['SocksPort'] as the controller gave it
     proxy |-> NoAddr,          \* TCP4ClientEndpoint(reactor, host, port)
     orErr |-> None,            \* failure held by or_endpoint before connect
     connectCalled |-> FALSE,
     tcp |-> "none",            \* the TCP connection to the proxy
     localAddr |-> NoAddr,      \* proto.transport.getHost()
     socks |-> "none",          \* the SOCKS5 negotiation on that connection
     factoryDeferred |-> Unfired,   \* proxy_factory.deferred
     bind |-> "none",           \* the circuit the attacher was asked for
     bindRequests |-> <<>>,     \* the create_circuit calls made
     bindDeferred |-> None,     \* final result of d in _create_circ
     fetch |-> "pending",       \* the Deferred connect() returned
     canceled |-> FALSE,        \* proxy_factory.canceled
     cancelledAt |-> None,      \* what the fetch waited for when cancelled
     cancelCalls |-> 0,         \* calls of cancel() on the fetch
     proxyAborts |-> 0,         \* abortConnection() on the proxy connection
     alreadyCalled |-> 0]       \* AlreadyCalledError raised on a fired Deferred

\* OnionRoutedTCPClientEndpoint.__init__: get_orport_endpoint asks the
\* controller for SocksPort
EndpointInit == [ConnIdle EXCEPT !.conf = "pending"]

\* the TLS policy _getEndpoint builds for https.  Both hasattr tests are
\* inputs: _wrapContextFactory exists on old Agent classes only, and
\* _policyForHTTPS is a class attribute a subclass may take away.
TlsPolicy(hasWrap, hasPolicy, host, port) ==
    IF hasWrap THEN <<"_wrapContextFactory", host, port>>
    ELSE IF hasPolicy THEN <<"creatorForNetloc", host, port>>
    ELSE None

\* raise SchemeNotSupported: no endpoint has been constructed
SchemeNotSupportedResult_queryFirst(base) ==
    [agent |-> [base EXCEPT !.outcome = "SchemeNotSupported"],
     conn |-> EndpointInit]

SchemeNotSupportedResult(base) ==
    [agent |-> [base EXCEPT !.outcome = "SchemeNotSupported"],
     conn |-> ConnIdle]

\* scheme https with an endpoint already constructed: wrap it with the TLS
\* policy, or raise NotImplementedError when there is none
WrapTls_fallback(built, policy) ==
    IF policy = None
    THEN [agent |-> [built EXCEPT !.outcome = "endpoint"],
          conn |-> EndpointInit]
    ELSE [agent |-> [built EXCEPT !.outcome = "tls_endpoint",
                                  !.tlsPolicy = policy],
          conn |-> EndpointInit]

WrapTls(built, policy) ==
    IF policy = None
    THEN [agent |-> [built EXCEPT !.outcome = "NotImplementedError"],
          conn |-> EndpointInit]
    ELSE [agent |-> [built EXCEPT !.outcome = "tls_endpoint",
                                  !.tlsPolicy = policy],
          conn |-> EndpointInit]

\* _getEndpoint(parsedURI, host, port): the agent record and the endpoint
\* record it leaves behind.  The endpoint is constructed, and the controller
\* asked for SocksPort, after the scheme check and before the TLS policy is
\* looked up.
GetEndpointResult(call, hasWrap, hasPolicy, path) ==
    LET parsed == call.uri.tag = "URI"
        host == IF parsed THEN call.uri.host ELSE call.host
        port == IF parsed THEN call.uri.port ELSE call.port
        scheme == call.uri.scheme
        base == [AgentIdle EXCEPT !.call = call, !.hasWrap = hasWrap,
                                  !.hasPolicy = hasPolicy]
        built == [base EXCEPT !.host = host, !.port = port, !.path = path]
    IN  IF scheme \notin {"http", "https"}
        THEN SchemeNotSupportedResult(base)
        ELSE IF scheme = "https"
             THEN WrapTls(built, TlsPolicy(hasWrap, hasPolicy, host, port))
             ELSE [agent |-> [built EXCEPT !.outcome = "endpoint"],
                   conn |-> EndpointInit]

GetEndpoint(r) ==
    /\ agent[r].outcome = "idle"
    /\ \E call \in GetEndpointCalls, hasWrap \in BOOLEAN, hasPolicy \in BOOLEAN,
          path \in Paths :
          LET res == GetEndpointResult(call, hasWrap, hasPolicy, path)
          IN  /\ agent' = [agent EXCEPT ![r] = res.agent]
              /\ conn' = [conn EXCEPT ![r] = res.conn]
    /\ UNCHANGED reader

(***************************************************************************)
(* Firing proxy_factory.deferred and what the chained fetch sees           *)
(***************************************************************************)
\* callback()/errback() of proxy_factory.deferred with value v: the first
\* call fires it, and the fetch chained to it by _create_circ takes the
\* value; a later call raises AlreadyCalledError and changes nothing
FireFactoryDeferred(c, v) ==
    IF c.factoryDeferred.called
    THEN [c EXCEPT !.alreadyCalled = @ + 1]
    ELSE [c EXCEPT !.factoryDeferred = Fired(v), !.fetch = v]

StartTcp_bindEarly(c) ==
    [c EXCEPT !.tcp = "connecting", !.bind = "pending",
              !.bindRequests = Append(@, <<None, NoPort, <<>>>>)]

\* end.connect(proxy_factory): the TCP connect to the resolved proxy starts
StartTcp(c) == [c EXCEPT !.tcp = "connecting"]

CreateCircuitRequest_peer(c, path) == <<c.proxy[1], c.proxy[2], path>>

\* the create_circuit call of _create_circ
CreateCircuitRequest(c, path) == <<c.localAddr[1], c.localAddr[2], path>>

create_circ_returnsProto(c, path) ==
    [c EXCEPT !.bindRequests = Append(@, CreateCircuitRequest(c, path)),
              !.bind = "pending", !.fetch = "transport"]

\* _create_circ(proto): read the connection's own address, ask the attacher
\* for a circuit on path, hook its failure to proxy_factory.deferred and
\* chain the fetch to proxy_factory.deferred
create_circ(c, path) ==
    [c EXCEPT !.bindRequests = Append(@, CreateCircuitRequest(c, path)),
              !.bind = "pending"]

BindErrback_dropped(c) == [c EXCEPT !.bindDeferred = "CircuitBindError"]

\* d.addErrback(proxy_factory.deferred.errback) running on a failed bind
BindErrback(c) ==
    IF c.factoryDeferred.called
    THEN [FireFactoryDeferred(c, "CircuitBindError")
            EXCEPT !.bindDeferred = "AlreadyCalledError"]
    ELSE [FireFactoryDeferred(c, "CircuitBindError")
            EXCEPT !.bindDeferred = "handled"]

(***************************************************************************)
(* OnionRoutedTCPClientEndpoint.connect and the events it waits for        *)
(***************************************************************************)
\* connect(protocol_factory): builds the SOCKS5 factory and adds the two
\* callbacks to or_endpoint; they run at once when the port is resolved.
\* The agent builds one endpoint per request and connects it once.
Connect(r) ==
    /\ agent[r].outcome \in {"endpoint", "tls_endpoint"}
    /\ ~conn[r].connectCalled
    /\ LET c == [conn[r] EXCEPT !.connectCalled = TRUE]
       IN  conn' = [conn EXCEPT ![r] =
                CASE c.conf = "resolved" -> StartTcp(c)
                  [] c.conf = "failed" -> [c EXCEPT !.fetch = c.orErr]
                  [] OTHER -> c]
    /\ UNCHANGED <<agent, reader>>

\* the callbacks of or_endpoint running on the controller's answer:
\* extract_port_value, the TCP4ClientEndpoint lambda, then connect's
\* callbacks if connect has added them
AnswerCallbacks(c, setting) ==
    LET res == extract_port_value(setting)
    IN  IF res.ok
        THEN LET c1 == [c EXCEPT !.conf = "resolved",
                                 !.socksPort = setting,
                                 !.proxy = <<"127.0.0.1", res.port>>]
             IN  IF c.connectCalled THEN StartTcp(c1) ELSE c1
        ELSE [c EXCEPT !.conf = "failed", !.orErr = res.err,
                       !.socksPort = setting,
                       !.fetch = IF c.connectCalled THEN res.err ELSE @]

\* the controller answers get_conf
ConfAnswer(r) ==
    /\ conn[r].conf = "pending"
    /\ \E setting \in SocksPortSettings :
          conn' = [conn EXCEPT ![r] = AnswerCallbacks(conn[r], setting)]
    /\ UNCHANGED <<agent, reader>>

\* the controller fails the get_conf query
ConfFailed(r) ==
    /\ conn[r].conf = "pending"
    /\ LET c == conn[r]
       IN  conn' = [conn EXCEPT ![r] =
                [c EXCEPT !.conf = "failed", !.orErr = "ControllerError",
                          !.fetch = IF c.connectCalled THEN "ControllerError"
                                    ELSE @]]
    /\ UNCHANGED <<agent, reader>>

\* the proxy connection of an endpoint is open
Live(c) == c.tcp = "connected" /\ c.socks # "failed" /\ c.proxyAborts = 0

EndpointPath_shared(ag, r) == ag[1].path

\* self.path as _create_circ of request r's endpoint reads it
EndpointPath(ag, r) == ag[r].path

\* the TCP connection to the proxy is made: the endpoint's Deferred fires
\* with the SOCKS5 protocol and _create_circ runs. The connection is a new
\* one, so its local address is that of no other open connection
TcpConnected(r) ==
    /\ conn[r].tcp = "connecting"
    /\ conn[r].proxy[2] \in 1..65535
    /\ \E addr \in LocalAddrs :
          /\ \A q \in Req \ {r} : Live(conn[q]) => conn[q].localAddr # addr
          /\ conn' = [conn EXCEPT ![r] =
                create_circ([@ EXCEPT !.tcp = "connected", !.localAddr = addr,
                                      !.socks = "negotiating"],
                            EndpointPath(agent, r))]
    /\ UNCHANGED <<agent, reader>>

\* the TCP connection to the proxy cannot be made: the fetch fails and
\* _create_circ is skipped
TcpFailed(r) ==
    /\ conn[r].tcp = "connecting"
    /\ conn' = [conn EXCEPT ![r] =
            [@ EXCEPT !.tcp = "failed", !.fetch = "ConnectError"]]
    /\ UNCHANGED <<agent, reader>>

\* The attacher hands the stream of this connection to its circuit, and the
\* proxy can answer the SOCKS5 request, only once the circuit is built.
StreamAttached(c) == c.bind = "built"

\* SOCKS5 negotiation completes: proxy_factory.deferred.callback(proto)
SocksEstablished(r) ==
    /\ conn[r].socks = "negotiating"
    /\ conn[r].proxyAborts = 0
    /\ StreamAttached(conn[r])
    /\ conn' = [conn EXCEPT ![r] =
            FireFactoryDeferred([@ EXCEPT !.socks = "established"], "transport")]
    /\ UNCHANGED <<agent, reader>>

\* the SOCKS5 factory is told the negotiation failed: it errbacks
\* proxy_factory.deferred unless the factory was cancelled
proxyConnectionFailed(c) ==
    IF c.canceled THEN c ELSE FireFactoryDeferred(c, "SocksError")

\* SOCKS5 negotiation fails, or the aborted proxy connection is lost
SocksFailed(r) ==
    /\ conn[r].socks = "negotiating"
    /\ conn' = [conn EXCEPT ![r] =
            proxyConnectionFailed([@ EXCEPT !.socks = "failed"])]
    /\ UNCHANGED <<agent, reader>>

\* the attacher reports the circuit built: d fires with no callback added
BindBuilt(r) ==
    /\ conn[r].bind = "pending"
    /\ conn' = [conn EXCEPT ![r] =
            [@ EXCEPT !.bind = "built", !.bindDeferred = "circuit"]]
    /\ UNCHANGED <<agent, reader>>

\* the attacher reports the circuit failed: d's errback runs
BindFailed(r) ==
    /\ conn[r].bind = "pending"
    /\ conn' = [conn EXCEPT ![r] = BindErrback([@ EXCEPT !.bind = "failed"])]
    /\ UNCHANGED <<agent, reader>>

(***************************************************************************)
(* Cancelling the fetch: Deferred.cancel() on the Deferred connect()       *)
(* returned, which is or_endpoint itself.                                  *)
(***************************************************************************)
\* or_endpoint has not fired (the controller has not answered): it is
\* errbacked with CancelledError, and connect's callbacks are skipped
CancelWhileResolving(c) ==
    [c EXCEPT !.conf = "cancelled", !.cancelledAt = "conf",
              !.fetch = "CancelledError"]

\* or_endpoint waits for the TCP connect: the endpoint's Deferred is
\* cancelled, stops the connector and fails with ConnectingCancelledError
CancelWhileConnecting(c) ==
    [c EXCEPT !.tcp = "cancelled", !.cancelledAt = "tcp",
              !.fetch = "ConnectingCancelledError"]

\* or_endpoint waits for proxy_factory.deferred: its canceller aborts the
\* proxy connection and marks the factory canceled, then the Deferred is
\* errbacked with CancelledError
CancelWhileNegotiating(c) ==
    [c EXCEPT !.canceled = TRUE, !.proxyAborts = @ + 1,
              !.cancelledAt = "socks",
              !.factoryDeferred = Fired("CancelledError"),
              !.fetch = "CancelledError"]

\* Deferred.cancel() on the fetch
cancelFetch(c) ==
    CASE c.fetch # "pending" -> c
      [] c.conf = "pending" -> CancelWhileResolving(c)
      [] c.tcp = "connecting" -> CancelWhileConnecting(c)
      [] c.tcp = "connected" /\ ~c.factoryDeferred.called ->
            CancelWhileNegotiating(c)
      [] OTHER -> c

DiscardedAnswer_runsCallbacks(c, setting) ==
    AnswerCallbacks([c EXCEPT !.conf = "pending"], setting)

\* callback() on the cancelled or_endpoint: the answer is dropped and no
\* callback runs
DiscardedAnswer(c, setting) == [c EXCEPT !.conf = "discarded"]

\* the caller cancels the fetch
CancelFetch(r) ==
    /\ conn[r].connectCalled
    /\ conn[r].cancelCalls < MaxCancel
    /\ conn' = [conn EXCEPT ![r] =
            cancelFetch([@ EXCEPT !.cancelCalls = @ + 1])]
    /\ UNCHANGED <<agent, reader>>

\* the controller answers after the fetch was cancelled
LateAnswer(r) ==
    /\ conn[r].conf = "cancelled"
    /\ \E setting \in SocksPortSettings :
          conn' = [conn EXCEPT ![r] = DiscardedAnswer(conn[r], setting)]
    /\ UNCHANGED <<agent, reader>>

\* the stopped connector reports its failure after the fetch was
\* cancelled: the endpoint's Deferred has fired and the report is dropped
LateTcpResult(r) ==
    /\ conn[r].tcp = "cancelled"
    /\ conn' = [conn EXCEPT ![r] = [@ EXCEPT !.tcp = "stopped"]]
    /\ UNCHANGED <<agent, reader>>

(***************************************************************************)
(* hashlib.sha1: an incremental digest.  The 160-bit state is narrowed to  *)
(* HashModulus values; update folds the bytes in one at a time and         *)
(* hexdigest writes the state in hexadecimal.                              *)
(***************************************************************************)
HashModulus == 256
Bytes == {0, 1}
Chunks == UNION {[1..n -> Bytes] : n \in 1..MaxChunk}
HexChars == <<"0", "1", "2", "3", "4", "5", "6", "7",
              "8", "9", "a", "b", "c", "d", "e", "f">>

\* hashlib.sha1(): the state of a fresh hash object
sha1_new == 7

RECURSIVE sha1_update(_, _)
\* hash_state.update(data)
sha1_update(h, data) ==
    IF Len(data) = 0 THEN h
    ELSE sha1_update((h * 5 + Head(data) + 1) % HashModulus, Tail(data))

\* hash_state.hexdigest()
hexdigest(h) == <<HexChars[(h \div 16) + 1], HexChars[(h % 16) + 1]>>

\* hashlib.sha1(body).hexdigest(): the digest of a whole body
sha1(body) == hexdigest(sha1_update(sha1_new, body))

(***************************************************************************)
(* hashingReadBody and hashingReadBodyProtocol                             *)
(***************************************************************************)
\* response.code and response.phrase
Responses == {<<200, "OK">>, <<206, "Partial Content">>}
\* what connectionLost may be told: ResponseDone, PotentialDataLoss, or any
\* other failure
Reasons == {"ResponseDone", "PotentialDataLoss", "ResponseFailed"}
\* what a transport reports when its connection was aborted
AbortReasons == {"PotentialDataLoss", "ResponseFailed"}
\* protocol.transport: None, a transport with abortConnection, or one
\* without
Transports == {None, "abortable", "plain"}

\* what the digest Deferred can hold
NoResult == [kind |-> None, status |-> 0, message |-> None, digest |-> <<>>]
Digest(hex) == [NoResult EXCEPT !.kind = "digest", !.digest = hex]
PartialDownloadError(status, message, hex) ==
    [kind |-> "PartialDownloadError", status |-> status, message |-> message,
     digest |-> hex]
Failure(reason) == [NoResult EXCEPT !.kind = reason]
CancelledError == Failure("CancelledError")

ReaderIdle ==
    [pc |-> "idle",             \* hashingReadBody not called yet
     status |-> 0,              \* protocol.status
     message |-> None,          \* protocol.message
     transport |-> None,        \* protocol.transport
     setupTransport |-> None,   \* protocol.transport when deliverBody returned
     hash_state |-> sha1_new,   \* protocol.hash_state
     received |-> <<>>,         \* the bytes delivered so far, in order
     chunks |-> 0,              \* dataReceived calls so far
     lateChunks |-> 0,          \* of them, those made after d had fired
     lateCancels |-> 0,         \* d.cancel() calls made after d had fired
     deferred |-> [called |-> FALSE, result |-> NoResult],  \* d
     abort |-> "unset",         \* what getAbort() gave the canceller
     aborts |-> 0,              \* calls of transport.abortConnection()
     warnings |-> 0,            \* DeprecationWarnings raised
     closes |-> 0,              \* termination signals delivered
     lastSignal |-> None,       \* the reason of the latest one
     cancels |-> 0,             \* calls of d.cancel()
     debugLogs |-> 0,           \* log.debug notes written
     alreadyCalled |-> 0]       \* AlreadyCalledError raised on d

\* getAbort(): getattr(protocol.transport, 'abortConnection', None)
getAbort(rd) == IF rd.transport = "abortable" THEN "abortConnection" ELSE None

\* d.callback(v) / d.errback(v)
FireDeferred(rd, v) ==
    IF rd.deferred.called
    THEN [rd EXCEPT !.alreadyCalled = @ + 1]
    ELSE [rd EXCEPT !.deferred = [called |-> TRUE, result |-> v]]

dataReceived_restart(rd, data) ==
    [rd EXCEPT !.hash_state = sha1_update(sha1_new, data)]

\* hashingReadBodyProtocol.dataReceived(data)
dataReceived(rd, data) ==
    [rd EXCEPT !.hash_state = sha1_update(@, data)]

connectionLost_unguarded(rd, reason) ==
    CASE reason = "ResponseDone" ->
            FireDeferred(rd, Digest(hexdigest(rd.hash_state)))
      [] reason = "PotentialDataLoss" ->
            FireDeferred(rd, PartialDownloadError(rd.status, rd.message,
                                                  hexdigest(rd.hash_state)))
      [] OTHER -> FireDeferred(rd, Failure(reason))

connectionLost_lossAsFailure(rd, reason) ==
    IF ~rd.deferred.called
    THEN CASE reason = "ResponseDone" ->
                FireDeferred(rd, Digest(hexdigest(rd.hash_state)))
           [] OTHER -> FireDeferred(rd, Failure(reason))
    ELSE [rd EXCEPT !.debugLogs = @ + 1]

connectionLost_lossAsDone(rd, reason) ==
    IF ~rd.deferred.called
    THEN CASE reason \in {"ResponseDone", "PotentialDataLoss"} ->
                FireDeferred(rd, Digest(hexdigest(rd.hash_state)))
           [] OTHER -> FireDeferred(rd, Failure(reason))
    ELSE [rd EXCEPT !.debugLogs = @ + 1]

\* hashingReadBodyProtocol.connectionLost(reason)
connectionLost(rd, reason) ==
    IF ~rd.deferred.called
    THEN CASE reason = "ResponseDone" ->
                FireDeferred(rd, Digest(hexdigest(rd.hash_state)))
           [] reason = "PotentialDataLoss" ->
                FireDeferred(rd, PartialDownloadError(rd.status, rd.message,
                                                      hexdigest(rd.hash_state)))
           [] OTHER -> FireDeferred(rd, Failure(reason))
    ELSE [rd EXCEPT !.debugLogs = @ + 1]

\* the transport delivers a termination signal to the protocol
Deliver(rd, reason) ==
    connectionLost([rd EXCEPT !.closes = @ + 1, !.lastSignal = reason], reason)

\* transport.abortConnection(): the transport reports the connection loss
\* to the protocol during the call (sync is the reason) or later (None)
abortConnection(rd, sync) ==
    IF sync = None THEN [rd EXCEPT !.aborts = @ + 1]
    ELSE Deliver([rd EXCEPT !.aborts = @ + 1], sync)

\* the canceller of d: cancel(deferred) in hashingReadBody
canceller(rd, sync) ==
    LET rd1 == [rd EXCEPT !.abort = getAbort(rd)]
    IN  IF rd1.abort # None THEN abortConnection(rd1, sync) ELSE rd1

cancel_rerunsCanceller(rd, sync) ==
    LET rd1 == canceller(rd, sync)
    IN  IF rd1.deferred.called THEN rd1
        ELSE FireDeferred(rd1, CancelledError)

\* Deferred.cancel() on d: run the canceller if d has not fired, then
\* errback CancelledError if it still has not
cancel(rd, sync) ==
    IF rd.deferred.called THEN rd
    ELSE LET rd1 == canceller(rd, sync)
         IN  IF rd1.deferred.called THEN rd1
             ELSE FireDeferred(rd1, CancelledError)

hashingReadBody_warnNoTransport(resp, t) ==
    LET rd == [ReaderIdle EXCEPT !.pc = "reading", !.status = resp[1],
                                 !.message = resp[2], !.transport = t,
                                 !.setupTransport = t]
    IN  IF getAbort(rd) = None
        THEN [rd EXCEPT !.warnings = @ + 1]
        ELSE rd

\* hashingReadBody(response): the Deferred and the protocol are made,
\* response.deliverBody(protocol) attaches transport t (or none yet), and
\* the warning is raised for a transport that cannot abort
hashingReadBody(resp, t) ==
    LET rd == [ReaderIdle EXCEPT !.pc = "reading", !.status = resp[1],
                                 !.message = resp[2], !.transport = t,
                                 !.setupTransport = t]
    IN  IF rd.transport # None /\ getAbort(rd) = None
        THEN [rd EXCEPT !.warnings = @ + 1]
        ELSE rd

HashingReadBody ==
    /\ reader.pc = "idle"
    /\ \E resp \in Responses, t \in Transports :
          reader' = hashingReadBody(resp, t)
    /\ UNCHANGED <<agent, conn>>

\* a response that attaches the transport only after deliverBody returned
LateMakeConnection ==
    /\ reader.pc = "reading"
    /\ reader.transport = None
    /\ \E t \in Transports \ {None} :
          reader' = [reader EXCEPT !.transport = t]
    /\ UNCHANGED <<agent, conn>>

\* a chunk of the body arrives
DataReceived ==
    /\ reader.pc = "reading"
    /\ reader.transport # None
    /\ reader.closes = 0
    /\ \E data \in Chunks :
          /\ Len(reader.received) + Len(data) <= MaxBody
          /\ reader' = dataReceived(
                [reader EXCEPT !.received = @ \o data, !.chunks = @ + 1,
                               !.lateChunks = IF reader.deferred.called
                                              THEN @ + 1 ELSE @],
                data)
    /\ UNCHANGED <<agent, conn>>

\* the body stream ends: clean end, potential data loss, failure, or a
\* duplicate of an earlier close
ConnectionLost ==
    /\ reader.pc = "reading"
    /\ reader.transport # None
    /\ reader.closes < MaxClose
    /\ \E reason \in Reasons : reader' = Deliver(reader, reason)
    /\ UNCHANGED <<agent, conn>>

\* the caller cancels the digest Deferred
Cancel ==
    /\ reader.pc = "reading"
    /\ reader.cancels < MaxCancel
    /\ \E sync \in {None} \cup AbortReasons :
          reader' = cancel([reader EXCEPT !.cancels = @ + 1,
                                          !.lateCancels =
                                             IF reader.deferred.called
                                             THEN @ + 1 ELSE @],
                           sync)
    /\ UNCHANGED <<agent, conn>>

ConnStep(r) ==
    \/ GetEndpoint(r)
    \/ Connect(r)
    \/ ConfAnswer(r)
    \/ ConfFailed(r)
    \/ TcpConnected(r)
    \/ TcpFailed(r)
    \/ SocksEstablished(r)
    \/ SocksFailed(r)
    \/ BindBuilt(r)
    \/ BindFailed(r)

\* the requests the connector specification runs
Active == {1}

InitConn ==
    /\ agent = [r \in Req |-> AgentIdle]
    /\ conn = [r \in Req |-> ConnIdle]

InitReader == reader = ReaderIdle

Init == InitConn /\ InitReader

NextConn == \E r \in Active : ConnStep(r)

SpecConn == Init /\ [][NextConn]_vars

\* the connector with a caller that may cancel the fetch
CancelStep(r) ==
    \/ ConnStep(r)
    \/ CancelFetch(r)
    \/ LateAnswer(r)
    \/ LateTcpResult(r)

NextCancel == \E r \in Active : CancelStep(r)

SpecCancel == Init /\ [][NextCancel]_vars

NextReader ==
    \/ HashingReadBody
    \/ LateMakeConnection
    \/ DataReceived
    \/ ConnectionLost
    \/ Cancel

SpecReader == Init /\ [][NextReader]_vars

\* two requests in flight, request 1 with relay path P1 and request 2 with
\* P2, both for the same http URI
P1 == <<"R1", "R2">>
P2 == <<"R2", "R1">>
RequestPath(r) == IF r = 1 THEN P1 ELSE P2
TwoRequestCall ==
    [uri |-> [tag |-> "URI", scheme |-> "http", host |-> "a.example",
              port |-> 80],
     host |-> None, port |-> NoPort]
TwoRequestSettings == {NoSetting, Scalar(S_DEFAULT), List(<<S_unix>>)}

TwoRequestInputs ==
    \A r \in Req :
        /\ agent[r].outcome # "idle"
            => /\ agent[r].call = TwoRequestCall
               /\ agent[r].path = RequestPath(r)
               /\ ~agent[r].hasWrap
               /\ ~agent[r].hasPolicy
        /\ conn[r].socksPort \in TwoRequestSettings

NextTwo == \E r \in Req : ConnStep(r) /\ TwoRequestInputs'

SpecTwo == Init /\ [][NextTwo]_vars

Next == NextCancel \/ NextTwo \/ NextReader

Spec == Init /\ [][Next]_vars

C2_OneBindRequest ==
    \A r \in Active :
        conn[r].fetch = "transport"
            => /\ Len(conn[r].bindRequests) = 1
               /\ conn[r].bindRequests[1] =
                    <<conn[r].localAddr[1], conn[r].localAddr[2], agent[r].path>>
               /\ conn[r].localAddr \in LocalAddrs
               /\ agent[r].path \in Paths

C2_Witness == conn[1].fetch = "transport" /\ Len(conn[1].bindRequests) = 1

\* C3: create_circuit has been requested only when the TCP connection to
\* the proxy exists, and never when the proxy-port resolution or the TCP
\* connect has failed.
C3_BindAfterTcp ==
    \A r \in Active :
        /\ (conn[r].bindRequests # <<>> \/ conn[r].bind # "none")
                => conn[r].tcp = "connected"
        /\ (conn[r].conf = "failed" \/ conn[r].tcp = "failed")
                => (conn[r].bindRequests = <<>> /\ conn[r].bind = "none")
        /\ conn[r].tcp \in {"none", "connecting"} => conn[r].bindRequests = <<>>

C3_Witness == conn[1].bindRequests # <<>> /\ conn[1].tcp = "connected"

\* what a terminal event means for a reader in state rd: the outcome of a
\* termination signal with the given reason
SignalOutcome(reason, rd) ==
    CASE reason = "ResponseDone" -> Digest(sha1(rd.received))
      [] reason = "PotentialDataLoss" ->
            PartialDownloadError(rd.status, rd.message, sha1(rd.received))
      [] OTHER -> Failure(reason)

\* C4: the digest Deferred is never fired a second time (no
\* AlreadyCalledError); the step that fires it gives it the outcome of the
\* first terminal event to reach it (the termination signal delivered in
\* that step, else the cancel); once fired it keeps its result through every
\* later chunk, termination signal and cancel; and a termination signal
\* that arrives after it fired only writes the diagnostic note.
C4_FiresOnce ==
    /\ [](reader.alreadyCalled = 0)
    /\ [][reader.deferred.called => reader'.deferred = reader.deferred]_vars
    /\ [][(~reader.deferred.called /\ reader'.deferred.called)
            => reader'.deferred.result =
                 IF reader'.closes > reader.closes
                 THEN SignalOutcome(reader'.lastSignal, reader)
                 ELSE CancelledError]_vars
    /\ [][(reader.deferred.called /\ reader'.closes > reader.closes)
            => reader'.debugLogs = reader.debugLogs + 1]_vars

C4_Witness ==
    reader.deferred.called /\ reader.closes = 2 /\ reader.debugLogs >= 1

\* C5: a clean end of the stream on an unresolved reader fires the Deferred
\* with the digest of all bytes delivered, in order, whatever the chunking;
\* a Deferred holding a digest holds the digest of the delivered body.
C5_DigestOfBody ==
    /\ [](reader.deferred.result.kind = "digest"
            => reader.deferred.result = Digest(sha1(reader.received)))
    /\ [][(/\ ~reader.deferred.called
           /\ reader'.closes = reader.closes + 1
           /\ reader'.lastSignal = "ResponseDone")
            => reader'.deferred =
                 [called |-> TRUE, result |-> Digest(sha1(reader.received))]]_vars

C5_Witness ==
    reader.deferred.result.kind = "digest" /\ reader.chunks >= 2

\* C6: a potential-data-loss end on an unresolved reader fires the Deferred
\* with PartialDownloadError carrying the response status, message and the
\* digest of the bytes delivered so far.
C6_PartialDownload ==
    [][(/\ ~reader.deferred.called
        /\ reader'.closes = reader.closes + 1
        /\ reader'.lastSignal = "PotentialDataLoss")
         => reader'.deferred =
              [called |-> TRUE,
               result |-> PartialDownloadError(reader.status, reader.message,
                                               sha1(reader.received))]]_vars

C6_Witness ==
    reader.deferred.result.kind = "PartialDownloadError" /\ reader.chunks >= 2

\* C7: once cancel has invoked the transport's abort (the Deferred was
\* unresolved and the transport can abort), abort has been invoked exactly
\* once and the Deferred holds CancelledError.
C7_CancelAbortsOnce ==
    reader.aborts >= 1
        => /\ reader.aborts = 1
           /\ reader.deferred = [called |-> TRUE, result |-> CancelledError]

\* C8 (as claimed): once the canceller has run and found no abort
\* capability, the Deferred holds CancelledError and the warning has been
\* raised exactly once.
C8_WarnsOnceOnCancel ==
    reader.abort = None
        => /\ reader.deferred = [called |-> TRUE, result |-> CancelledError]
           /\ reader.warnings = 1

\* C8 (amended): once the canceller has run and found no abort capability,
\* the Deferred holds CancelledError; the warning has been raised exactly
\* once when deliverBody attached a transport without abortConnection, and
\* not at all when no transport was attached when deliverBody returned.
C8_WarnsOnceAtSetup ==
    reader.abort = None
        => /\ reader.deferred = [called |-> TRUE, result |-> CancelledError]
           /\ reader.setupTransport = "plain" => reader.warnings = 1
           /\ reader.setupTransport = None => reader.warnings = 0

C8_Witness ==
    /\ reader.abort = None
    /\ reader.setupTransport = None
    /\ reader.deferred.result = CancelledError

\* the (host, port) a _getEndpoint call is about
RequestedHost(call) == IF call.uri.tag = "URI" THEN call.uri.host ELSE call.host
RequestedPort(call) == IF call.uri.tag = "URI" THEN call.uri.port ELSE call.port

\* C9: a request with a scheme other than http and https has failed with
\* SchemeNotSupported, and for it no SocksPort query, no TCP connect and no
\* create_circuit request has been issued.
C9_UnsupportedSchemeNoIO ==
    \A r \in Active :
        (agent[r].outcome # "idle"
         /\ agent[r].call.uri.scheme \notin {"http", "https"})
            => /\ agent[r].outcome = "SchemeNotSupported"
               /\ conn[r].conf = "unasked"
               /\ conn[r].tcp = "none"
               /\ conn[r].bindRequests = <<>>

C9_Witness == agent[1].outcome = "SchemeNotSupported"

\* C10: for https the endpoint is the routed endpoint wrapped in TLS with a
\* policy built for the requested (host, port), or the call raised
\* NotImplementedError with no policy available; for http it is the routed
\* endpoint unwrapped.
C10_NoInsecureFallback ==
    \A r \in Active :
        agent[r].outcome # "idle" =>
            LET a == agent[r]
                h == RequestedHost(a.call)
                p == RequestedPort(a.call)
            IN  /\ a.call.uri.scheme = "https" =>
                     \/ /\ a.outcome = "tls_endpoint"
                        /\ a.tlsPolicy \in {<<"_wrapContextFactory", h, p>>,
                                            <<"creatorForNetloc", h, p>>}
                        /\ a.host = h /\ a.port = p
                        /\ a.hasWrap \/ a.hasPolicy
                     \/ /\ a.outcome = "NotImplementedError"
                        /\ ~a.hasWrap /\ ~a.hasPolicy
                /\ a.call.uri.scheme = "http" =>
                     /\ a.outcome = "endpoint"
                     /\ a.tlsPolicy = None
                     /\ a.host = h /\ a.port = p

C10_Witness == agent[1].outcome = "tls_endpoint"

\* whether the controller has answered the SocksPort query of request r
Answered(r) ==
    conn[r].conf \in {"resolved", "failed"} /\ conn[r].orErr # "ControllerError"

\* a setting holds a numeric port: a scalar of decimal digits, or a list
\* with an entry of decimal digits
HasNumericPort(setting) ==
    IF setting.isList
    THEN \E i \in 1..Len(setting.val) : isdigit(setting.val[i])
    ELSE isdigit(setting.val)

C12_PortInRange ==
    \A r \in Active :
        conn[r].conf = "resolved" => conn[r].proxy[2] \in 1..65535

C14_FirstFailureWins ==
    \A r \in Active :
        (conn[r].socks = "failed" /\ conn[r].bind = "failed")
            => /\ conn[r].fetch \in {"SocksError", "CircuitBindError"}
               /\ conn[r].fetch = conn[r].factoryDeferred.result
               /\ conn[r].alreadyCalled = 0
               /\ conn[r].bindDeferred # "AlreadyCalledError"

\* the state of the reader's state machine
ReaderState(rd) ==
    CASE rd.deferred.called /\ rd.deferred.result.kind = "digest" -> "Completed"
      [] rd.deferred.called /\ rd.deferred.result.kind # "digest" -> "Failed"
      [] ~rd.deferred.called /\ rd.pc = "idle" -> "Idle"
      [] OTHER -> "Receiving"

\* one step of the reader seen as a step of its state machine
C17_Step ==
    LET before == ReaderState(reader)
        after == ReaderState(reader')
        signal == reader'.closes > reader.closes
        cancelled == reader'.cancels > reader.cancels
    IN  /\ before = "Idle" => after \in {"Idle", "Receiving"}
        /\ before \in {"Completed", "Failed"} => after = before
        /\ (before = "Receiving" /\ (signal \/ cancelled))
                => after \in {"Completed", "Failed"}
        /\ (before = "Receiving" /\ ~signal /\ ~cancelled) => after = "Receiving"
        /\ before = "Receiving" =>
                (after = "Completed"
                    <=> (signal /\ reader'.lastSignal = "ResponseDone"))

\* C17: the reader moves Idle -> Receiving -> {Completed, Failed}; a
\* terminal state is never left; an unresolved reader becomes Completed
\* exactly when the terminal event it meets is a clean end of the stream,
\* and Failed on potential data loss, any other stream error or a cancel.
C17_StateMachine == [][C17_Step]_vars

C17_Witness ==
    /\ ReaderState(reader) = "Completed"
    /\ reader.chunks >= 1
    /\ reader.closes = 2
    /\ reader.lateCancels >= 1

\* C19: once the digest Deferred has fired, no step invokes the transport's
\* abort, and neither a cancel nor a chunk delivered afterwards changes the
\* Deferred or raises AlreadyCalledError on it.
C19_ResolvedIsFrozen ==
    [][reader.deferred.called
        => /\ reader'.aborts = reader.aborts
           /\ reader'.deferred = reader.deferred
           /\ reader'.alreadyCalled = reader.alreadyCalled]_vars

C19_Witness ==
    /\ reader.deferred.result = CancelledError
    /\ reader.aborts = 1
    /\ reader.lateCancels >= 1
    /\ reader.lateChunks >= 1

\* what counts as a cancellation failure
CancellationFailures == {"CancelledError", "ConnectingCancelledError"}

\* C15: once the fetch has resolved its outcome never changes, and no later
\* event fires the resolved Deferred again (no callback or errback is
\* called on it, which would raise AlreadyCalledError).
C15_FetchResolvesOnce ==
    /\ [](\A r \in Active : conn[r].alreadyCalled = 0)
    /\ [][\A r \in Active :
            conn[r].fetch # "pending" => conn'[r].fetch = conn[r].fetch]_vars

\* the connector half of C16: a fetch cancelled while unresolved has
\* resolved with a cancellation failure
FetchCancelResolves ==
    \A r \in Active :
        conn[r].cancelledAt # None => conn[r].fetch \in CancellationFailures

\* C16: a fetch future cancelled while unresolved, at any suspension point
\* of the connector or while the body is read, has resolved with a
\* cancellation failure.
C16_CancelResolves ==
    /\ FetchCancelResolves
    /\ reader.abort # "unset"
        => reader.deferred = [called |-> TRUE, result |-> CancelledError]

\* C20: a fetch cancelled while the proxy-port query or the proxy TCP
\* connect was pending never issues a create_circuit request, whatever
\* arrives afterwards.
C20_NoBindAfterEarlyCancel ==
    \A r \in Active :
        conn[r].cancelledAt \in {"conf", "tcp"}
            => /\ conn[r].bindRequests = <<>>
               /\ conn[r].bind = "none"
               /\ conn[r].tcp # "connected"

C20_Witness ==
    /\ conn[1].cancelledAt = "conf"
    /\ conn[1].conf = "discarded"
    /\ conn[1].bindRequests = <<>>

\* C18: with two requests in flight on different relay paths, every
\* create_circuit request of a request pairs the local address of that
\* request's own proxy connection with that request's own path, never with
\* the other request's path, and two open proxy connections are never the
\* same connection.
C18_OwnPathPerRequest ==
    /\ \A r \in Req : \A i \in 1..Len(conn[r].bindRequests) :
          /\ conn[r].bindRequests[i]
                = <<conn[r].localAddr[1], conn[r].localAddr[2], RequestPath(r)>>
          /\ \A q \in Req \ {r} : conn[r].bindRequests[i][3] # RequestPath(q)
    /\ \A r \in Req : \A q \in Req \ {r} :
          Live(conn[r]) /\ Live(conn[q]) => conn[r].localAddr # conn[q].localAddr

C18_Witness ==
    /\ conn[1].bind = "pending" /\ conn[2].bind = "pending"
    /\ conn[1].bindRequests = <<<<"127.0.0.1", 50002, P1>>>>
    /\ conn[2].bindRequests = <<<<"127.0.0.1", 50001, P2>>>>

====
